---------------------------- MODULE Spec2Model ----------------------------
(***************************************************************************)
(* Uptime-bot: the Telegram bot process (src/bot.py) with one              *)
(* monitor_website task per target, and the REST API process               *)
(* (src/api_server.py), both working on the same MongoDB collection        *)
(* db['websites'].  Every await of a handler is a point where the other    *)
(* tasks and the other process may run, so each handler is cut into one    *)
(* action per database or network operation.                               *)
(***************************************************************************)
EXTENDS Integers, Sequences, FiniteSets, TLC

\* ------------------------------------------------------------------ bounds
MaxTargets == 1      \* documents ever inserted into websites_collection
MaxProbes == 3       \* probes (check_website calls) in one run
NumWorkers == 1      \* API requests that may be in flight at once

\* ---------------------------------------------------------- input domains
Ids == 1..MaxTargets
Workers == 1..NumWorkers
Users == {101, 102}          \* callers of the API
Owners == {101}              \* users who add targets
Urls == {"https://a.example/"}
\* what the network does to one GET in the system model: an HTTP response that
\* counts as up (200) and one that counts as down (503); timeouts and
\* connection errors are classified in SpecProbe below
NetInputs ==
    { [kind |-> "response", code |-> 200, ms |-> 50],
      [kind |-> "response", code |-> 503, ms |-> 50] }
AddIntervals == {"5min", "2hour"}        \* intervals asked for at creation
UpdateIntervals == {"10sec", "2hour"}    \* intervals asked for in an update

\* ------------------------------------------------------- program constants
\* Python's None, for a document, a result or a string
None == [none |-> TRUE]
NoneStr == "None"

INTERVALS ==
    [k \in {"10sec", "30sec", "1min", "2min", "3min", "5min", "10min",
            "15min", "30min", "1hour"} |->
        CASE k = "10sec" -> 10   [] k = "30sec" -> 30   [] k = "1min" -> 60
          [] k = "2min" -> 120   [] k = "3min" -> 180   [] k = "5min" -> 300
          [] k = "10min" -> 600  [] k = "15min" -> 900  [] k = "30min" -> 1800
          [] k = "1hour" -> 3600]

valid_intervals == DOMAIN INTERVALS
interval_map == INTERVALS

VARIABLES
    websites,          \* db['websites']: present _id -> document
    nextId,            \* the next ObjectId insert_one hands out
    clock,             \* datetime.utcnow(), one tick per finished probe
    monitoring_tasks,  \* bot.py: ids with an entry in monitoring_tasks
    loop,              \* per id the run may hand out, the monitor_website task:
                       \* its position and locals
    api,               \* per worker, the API request it is serving
    sent,              \* per id, the calls of bot.send_message made for it
    applied,           \* per id, the check updates that matched the document
    changes,           \* per id, the persisted status changes made while
                       \* notifications_enabled was true
    lastResult,        \* per id, the result of the probe that finished last
    resumed,           \* post_init: whether it has run, and per id it found the
                       \* owner and counters the document held then
    failed,            \* per id, the calls of bot.send_message that raised
    probed,            \* one GET given to both check_website implementations:
                       \* what the network did, and what each returned
    tasks,             \* per id, the calls of
                       \* asyncio.create_task(monitor_website(id, ...)) made
                       \* by the bot process since it started
    user_data          \* per chat user, context.user_data of the bot

vars == <<websites, nextId, clock, monitoring_tasks, loop, api, sent, applied,
          changes, lastResult, resumed, failed, probed, tasks, user_data>>

\* ----------------------------------------------------------------- helpers
RECURSIVE GCD(_, _)
GCD(a, b) == IF b = 0 THEN a ELSE GCD(b, a % b)

\* (successful_checks / total_checks) * 100 as the exact fraction <<num, den>>
\* in lowest terms; the float the code stores is a function of this fraction
Percentage(successful_checks, total_checks) ==
    LET n == 100 * successful_checks
        g == GCD(n, total_checks)
    IN  <<n \div g, total_checks \div g>>

\* the literal 100.0
Hundred == <<100, 1>>

\* dict.update: the fields of s replace those of d
SetFields(d, s) ==
    [f \in DOMAIN d \cup DOMAIN s |-> IF f \in DOMAIN s THEN s[f] ELSE d[f]]

\* the fields of the document read by find_one that the rest of a periodic
\* cycle reads (bot.py 329-390), and those the rest of a manual check reads
\* (api_server.py 344-348); the other fields of the snapshot are never used
loop_reads == {"url", "status", "total_checks", "successful_checks",
               "notifications_enabled", "interval", "interval_seconds"}
manual_reads == {"url", "total_checks", "successful_checks"}
Snapshot(doc, fields) == [f \in fields |-> doc[f]]

\* collection.find_one({'_id': id})
find_one(coll, id) == IF id \in DOMAIN coll THEN coll[id] ELSE None

\* a lookup by _id alone, without the owner in the filter
find_one_any_owner(coll, id, user_id) ==
    IF id \in DOMAIN coll THEN coll[id] ELSE None

\* collection.find_one({'_id': id, 'user_id': user_id})
find_one_owned(coll, id, user_id) ==
    IF id \in DOMAIN coll /\ coll[id].user_id = user_id THEN coll[id] ELSE None

\* matched_count of collection.update_one({'_id': id}, ...)
matched_count(coll, id) == IF id \in DOMAIN coll THEN 1 ELSE 0

\* a mutant of update_one: update_one(..., upsert=True)
update_one_upsert(coll, id, set) ==
    IF id \in DOMAIN coll
    THEN [coll EXCEPT ![id] = SetFields(@, set)]
    ELSE [i \in DOMAIN coll \cup {id} |-> IF i = id THEN set ELSE coll[i]]

\* collection.update_one({'_id': id}, {'$set': set}): no upsert, so a filter
\* that matches nothing changes nothing
update_one(coll, id, set) ==
    IF id \in DOMAIN coll
    THEN [coll EXCEPT ![id] = SetFields(@, set)]
    ELSE coll

\* collection.insert_one(doc) under the fresh id
insert_one(coll, id, doc) ==
    [i \in DOMAIN coll \cup {id} |-> IF i = id THEN doc ELSE coll[i]]

\* collection.delete_one({'_id': id, 'user_id': user_id})
delete_one(coll, id, user_id) ==
    IF id \in DOMAIN coll /\ coll[id].user_id = user_id
    THEN [i \in DOMAIN coll \ {id} |-> coll[i]]
    ELSE coll

\* a probe that takes every HTTP response for up, whatever its status code
UptimeMonitor_check_website_any_response(net, now) ==
    IF net.kind = "response"
    THEN [status |-> "up",
          status_code |-> net.code, response_time |-> net.ms,
          checked_at |-> now, error |-> NoneStr]
    ELSE [status |-> "down", status_code |-> 0, response_time |-> net.ms,
          checked_at |-> now, error |-> "Timeout"]

\* bot.py UptimeMonitor.check_website
UptimeMonitor_check_website(net, now) ==
    IF net.kind = "response"
    THEN [status |-> IF net.code < 500 THEN "up" ELSE "down",
          status_code |-> net.code, response_time |-> net.ms,
          checked_at |-> now, error |-> NoneStr]
    ELSE IF net.kind = "timeout"
    THEN [status |-> "down", status_code |-> 0, response_time |-> net.ms,
          checked_at |-> now, error |-> "Timeout"]
    ELSE [status |-> "down", status_code |-> 0, response_time |-> net.ms,
          checked_at |-> now, error |-> "ClientConnectorError"]

\* api_server.py check_website: one except clause, error = str(e), and
\* str(asyncio.TimeoutError()) is the empty string
check_website(net, now) ==
    IF net.kind = "response"
    THEN [status |-> IF net.code < 500 THEN "up" ELSE "down",
          status_code |-> net.code, response_time |-> net.ms,
          checked_at |-> now, error |-> NoneStr]
    ELSE [status |-> "down", status_code |-> 0, response_time |-> net.ms,
          checked_at |-> now,
          error |-> IF net.kind = "timeout" THEN "" ELSE "ClientConnectorError"]

\* a document made visible before its first probe has been counted
website_data_unprobed(user_id, url, interval, result) ==
    [user_id |-> user_id, url |-> url, interval |-> interval,
     interval_seconds |-> INTERVALS[interval],
     status |-> "unknown", last_checked |-> result.checked_at,
     last_status_code |-> 0,
     last_response_time |-> 0,
     uptime_percentage |-> Hundred,
     total_checks |-> 0,
     successful_checks |-> 0,
     notifications_enabled |-> TRUE]

\* the document both creation paths build (bot.py 209-223, api_server.py 143-157)
website_data(user_id, url, interval, result) ==
    [user_id |-> user_id, url |-> url, interval |-> interval,
     interval_seconds |-> INTERVALS[interval],
     status |-> result.status, last_checked |-> result.checked_at,
     last_status_code |-> result.status_code,
     last_response_time |-> result.response_time,
     uptime_percentage |-> Hundred,
     total_checks |-> 1,
     successful_checks |-> IF result.status = "up" THEN 1 ELSE 0,
     notifications_enabled |-> TRUE]

\* a mutant of check_set: total_checks is written back without the + 1
check_set_no_increment(site, result) ==
    LET total_checks == site.total_checks
        successful_checks ==
            site.successful_checks + (IF result.status = "up" THEN 1 ELSE 0)
    IN  [status |-> result.status, last_checked |-> result.checked_at,
         last_status_code |-> result.status_code,
         last_response_time |-> result.response_time,
         uptime_percentage |-> Percentage(successful_checks, total_checks),
         total_checks |-> total_checks,
         successful_checks |-> successful_checks]

\* a check that writes back the settings of its snapshot with its result
check_set_with_settings(site, result) ==
    LET total_checks == site.total_checks + 1
        successful_checks ==
            site.successful_checks + (IF result.status = "up" THEN 1 ELSE 0)
    IN  [status |-> result.status, last_checked |-> result.checked_at,
         last_status_code |-> result.status_code,
         last_response_time |-> result.response_time,
         uptime_percentage |-> Percentage(successful_checks, total_checks),
         total_checks |-> total_checks,
         successful_checks |-> successful_checks,
         notifications_enabled |->
             IF "notifications_enabled" \in DOMAIN site
             THEN site.notifications_enabled ELSE TRUE]

\* the $set document of a check, computed from the snapshot read earlier
\* (monitor_website 331-351; manual_check 347-366 is the same text)
check_set(site, result) ==
    LET total_checks == site.total_checks + 1
        successful_checks ==
            site.successful_checks + (IF result.status = "up" THEN 1 ELSE 0)
    IN  [status |-> result.status, last_checked |-> result.checked_at,
         last_status_code |-> result.status_code,
         last_response_time |-> result.response_time,
         uptime_percentage |-> Percentage(successful_checks, total_checks),
         total_checks |-> total_checks,
         successful_checks |-> successful_checks]

\* does this write change the persisted status while notifications are on
StatusChange(coll, id, status) ==
    id \in DOMAIN coll /\ coll[id].status # status /\ coll[id].notifications_enabled

NoTask == [pc |-> "none", site |-> None, result |-> None, matched |-> 0,
           before |-> None, due |-> FALSE, why |-> "running"]
\* a worker between requests; last is the HTTP status of the response it sent
\* last (0 before any)
IdleWorker == [op |-> "idle", last |-> 0]
\* context.user_data after clear(): .get('awaiting_url') and
\* .get('pending_url') both return None
NoUserData == [awaiting_url |-> FALSE, pending_url |-> NoneStr]
NotProbed == [net |-> None, now |-> 0, bot |-> None, api |-> None]
Respond(code) == [op |-> "idle", last |-> code]

Init ==
    /\ websites = <<>>
    /\ nextId = 1
    /\ clock = 1
    /\ monitoring_tasks = {}
    /\ loop = [i \in Ids |-> NoTask]
    /\ api = [w \in Workers |-> IdleWorker]
    /\ sent = [i \in Ids |-> 0]
    /\ applied = [i \in Ids |-> 0]
    /\ changes = [i \in Ids |-> 0]
    /\ lastResult = [i \in Ids |-> None]
    /\ resumed = [booted |-> TRUE, sites |-> <<>>]
    /\ failed = [i \in Ids |-> 0]
    /\ probed = NotProbed
    /\ tasks = [i \in Ids |-> 0]
    /\ user_data = [u \in Owners |-> NoUserData]

\* ------------------------------------------------------------- bot process
\* handle_interval_selection 197-245: url is what
\* context.user_data.get('pending_url') returned; probe, insert_one,
\* create_task, registry entry, context.user_data.clear()
handle_interval_selection(user_id, url, interval_key, net) ==
    /\ nextId \in DOMAIN loop
    /\ clock <= MaxProbes
    /\ interval_key \in DOMAIN INTERVALS
    /\ LET result == UptimeMonitor_check_website(net, clock)
       IN  websites' = insert_one(websites, nextId,
                                  website_data(user_id, url, interval_key, result))
    /\ clock' = clock + 1
    /\ monitoring_tasks' = monitoring_tasks \cup {nextId}
    /\ loop' = [loop EXCEPT ![nextId] = [NoTask EXCEPT !.pc = "find"]]
    /\ lastResult' = [lastResult EXCEPT ![nextId] =
          UptimeMonitor_check_website(net, clock)]
    /\ nextId' = nextId + 1
    /\ tasks' = [tasks EXCEPT ![nextId] = @ + 1]
    /\ user_data' = [user_data EXCEPT ![user_id] = NoUserData]
    /\ UNCHANGED <<api, sent, applied, changes, resumed, failed, probed>>

\* a loop that does not break when its record is gone and waits for the next
\* cycle instead
LoopFind_never_breaks(id) ==
    /\ loop[id].pc = "find"
    /\ LET site == find_one(websites, id)
       IN  loop' = [loop EXCEPT ![id] =
                IF site = None
                THEN [@ EXCEPT !.pc = "sleep"]
                ELSE [@ EXCEPT !.pc = "probe", !.site = Snapshot(site, loop_reads)]]
    /\ UNCHANGED <<websites, nextId, clock, monitoring_tasks, api, sent, applied, changes, lastResult, resumed, failed, probed, tasks, user_data>>

\* a loop that goes on to its probe although find_one returned nothing
LoopFind_probes_anyway(id) ==
    /\ loop[id].pc = "find"
    /\ LET site == find_one(websites, id)
       IN  loop' = [loop EXCEPT ![id] =
                IF site = None
                THEN [@ EXCEPT !.pc = "probe"]
                ELSE [@ EXCEPT !.pc = "probe", !.site = Snapshot(site, loop_reads)]]
    /\ UNCHANGED <<websites, nextId, clock, monitoring_tasks, api, sent, applied, changes, lastResult, resumed, failed, probed, tasks, user_data>>

\* monitor_website 324-327: site = find_one; if not site: break
LoopFind(id) ==
    /\ loop[id].pc = "find"
    /\ LET site == find_one(websites, id)
       IN  loop' = [loop EXCEPT ![id] =
                IF site = None
                THEN [@ EXCEPT !.pc = "stopped", !.site = None, !.why = "gone"]
                ELSE [@ EXCEPT !.pc = "probe", !.site = Snapshot(site, loop_reads)]]
    /\ UNCHANGED <<websites, nextId, clock, monitoring_tasks, api, sent, applied, changes, lastResult, resumed, failed, probed, tasks, user_data>>

\* monitor_website 329: result = await monitor.check_website(site['url'])
LoopProbe(id, net) ==
    /\ loop[id].pc = "probe"
    /\ clock <= MaxProbes
    /\ loop' = [loop EXCEPT ![id] =
            [@ EXCEPT !.pc = "update",
                      !.result = UptimeMonitor_check_website(net, clock)]]
    /\ clock' = clock + 1
    /\ lastResult' = [lastResult EXCEPT ![id] = UptimeMonitor_check_website(net, clock)]
    /\ UNCHANGED <<websites, nextId, monitoring_tasks, api, sent, applied, changes, resumed, failed, probed, tasks, user_data>>

\* an update after which the loop sleeps at once, whether or not a
\* notification is due
LoopUpdate_no_notify(id) ==
    /\ loop[id].pc = "update"
    /\ LET site == loop[id].site
           result == loop[id].result
           status_changed == site.status # result.status
           due == status_changed /\ site.notifications_enabled
       IN  /\ websites' = update_one(websites, id, check_set(site, result))
           /\ loop' = [loop EXCEPT ![id] =
                  [@ EXCEPT !.pc = "sleep",
                            !.matched = matched_count(websites, id),
                            !.before = IF id \in DOMAIN websites
                                       THEN Snapshot(websites[id],
                                                {"status", "notifications_enabled"})
                                       ELSE None,
                            !.due = due]]
           /\ applied' = [applied EXCEPT ![id] = @ + matched_count(websites, id)]
           /\ changes' = [changes EXCEPT ![id] =
                  @ + (IF StatusChange(websites, id, result.status) THEN 1 ELSE 0)]
    /\ UNCHANGED <<nextId, clock, monitoring_tasks, api, sent, lastResult, resumed, failed, probed, tasks, user_data>>

\* monitor_website 331-356: the counters from the snapshot, update_one, and
\* the decision whether a notification is due
LoopUpdate(id) ==
    /\ loop[id].pc = "update"
    /\ LET site == loop[id].site
           result == loop[id].result
           status_changed == site.status # result.status
           due == status_changed /\ site.notifications_enabled
       IN  /\ websites' = update_one(websites, id, check_set(site, result))
           /\ loop' = [loop EXCEPT ![id] =
                  [@ EXCEPT !.pc = IF due THEN "notify" ELSE "sleep",
                            !.matched = matched_count(websites, id),
                            !.before = IF id \in DOMAIN websites
                                       THEN Snapshot(websites[id],
                                                {"status", "notifications_enabled"})
                                       ELSE None,
                            !.due = due]]
           /\ applied' = [applied EXCEPT ![id] = @ + matched_count(websites, id)]
           /\ changes' = [changes EXCEPT ![id] =
                  @ + (IF StatusChange(websites, id, result.status) THEN 1 ELSE 0)]
    /\ UNCHANGED <<nextId, clock, monitoring_tasks, api, sent, lastResult, resumed, failed, probed, tasks, user_data>>

\* a notify step whose delivery failure is not caught: it reaches the outer
\* except and ends the task
LoopNotify_raises(id, delivered) ==
    /\ loop[id].pc = "notify"
    /\ sent' = [sent EXCEPT ![id] = @ + 1]
    /\ failed' = [failed EXCEPT ![id] = @ + (IF delivered THEN 0 ELSE 1)]
    /\ loop' = [loop EXCEPT ![id] =
          IF delivered THEN [@ EXCEPT !.pc = "sleep"]
          ELSE [@ EXCEPT !.pc = "stopped", !.why = "error"]]
    /\ UNCHANGED <<websites, nextId, clock, monitoring_tasks, api, applied, changes, lastResult, resumed, probed, tasks, user_data>>

\* monitor_website 357-388: build the message, bot.send_message; a failed
\* delivery is swallowed by the bare except
LoopNotify(id, delivered) ==
    /\ loop[id].pc = "notify"
    /\ sent' = [sent EXCEPT ![id] = @ + 1]
    /\ failed' = [failed EXCEPT ![id] = @ + (IF delivered THEN 0 ELSE 1)]
    /\ loop' = [loop EXCEPT ![id] = [@ EXCEPT !.pc = "sleep"]]
    /\ UNCHANGED <<websites, nextId, clock, monitoring_tasks, api, applied, changes, lastResult, resumed, probed, tasks, user_data>>

\* monitor_website 390: await asyncio.sleep(site['interval_seconds'])
LoopSleep(id) ==
    /\ loop[id].pc = "sleep"
    /\ loop' = [loop EXCEPT ![id] = [NoTask EXCEPT !.pc = "find"]]
    /\ UNCHANGED <<websites, nextId, clock, monitoring_tasks, api, sent, applied, changes, lastResult, resumed, failed, probed, tasks, user_data>>

\* monitor_website 322, 392-393: the try encloses the while, so an exception
\* of find_one, of update_one or of Bot(token=BOT_TOKEN) leaves the loop; it
\* is logged and the task ends
LoopException(id) ==
    /\ loop[id].pc \in {"find", "update", "notify"}
    /\ loop' = [loop EXCEPT ![id] = [@ EXCEPT !.pc = "stopped", !.why = "error"]]
    /\ UNCHANGED <<websites, nextId, clock, monitoring_tasks, api, sent, applied, changes, lastResult, resumed, failed, probed, tasks, user_data>>

\* ------------------------------------------------------------- API process
\* add_website 119-131: validate the interval, look for the owner's url
AddFind(w, user_id, url, interval) ==
    /\ api[w].op = "idle"
    /\ nextId \in DOMAIN loop
    /\ api' = [api EXCEPT ![w] =
          IF interval \notin valid_intervals
          THEN Respond(400)
          ELSE IF \E i \in DOMAIN websites :
                     websites[i].user_id = user_id /\ websites[i].url = url
          THEN Respond(400)
          ELSE [op |-> "add", pc |-> "probe", user_id |-> user_id, url |-> url,
                interval |-> interval, result |-> None]]
    /\ UNCHANGED <<websites, nextId, clock, monitoring_tasks, loop, sent, applied, changes, lastResult, resumed, failed, probed, tasks, user_data>>

\* add_website 134: check_result = await check_website(url)
AddProbe(w, net) ==
    /\ api[w].op = "add" /\ api[w].pc = "probe"
    /\ clock <= MaxProbes
    /\ api' = [api EXCEPT ![w] =
          [@ EXCEPT !.pc = "insert", !.result = check_website(net, clock)]]
    /\ clock' = clock + 1
    /\ UNCHANGED <<websites, nextId, monitoring_tasks, loop, sent, applied, changes, lastResult, resumed, failed, probed, tasks, user_data>>

\* add_website 143-166: insert_one and the response; no task is created
AddInsert(w) ==
    /\ api[w].op = "add" /\ api[w].pc = "insert"
    /\ nextId \in DOMAIN loop
    /\ websites' = insert_one(websites, nextId,
          website_data(api[w].user_id, api[w].url, api[w].interval, api[w].result))
    /\ lastResult' = [lastResult EXCEPT ![nextId] = api[w].result]
    /\ nextId' = nextId + 1
    /\ api' = [api EXCEPT ![w] = Respond(200)]
    /\ UNCHANGED <<clock, monitoring_tasks, loop, sent, applied, changes, resumed, failed, probed, tasks, user_data>>

\* an update that stores the new label and leaves interval_seconds alone
update_data_label_only(interval, notifications_enabled) ==
    LET flds == (IF interval # NoneStr /\ interval # ""
                 THEN {"interval"} ELSE {})
                \cup (IF notifications_enabled # <<>>
                      THEN {"notifications_enabled"} ELSE {})
    IN  [f \in flds |->
            CASE f = "interval" -> interval
              [] f = "notifications_enabled" -> notifications_enabled[1]]

\* update_website 221-258; interval is NoneStr when absent, the flag is <<>>
\* when absent
update_data(interval, notifications_enabled) ==
    LET flds == (IF interval # NoneStr /\ interval # ""
                 THEN {"interval", "interval_seconds"} ELSE {})
                \cup (IF notifications_enabled # <<>>
                      THEN {"notifications_enabled"} ELSE {})
    IN  [f \in flds |->
            CASE f = "interval" -> interval
              [] f = "interval_seconds" -> interval_map[interval]
              [] f = "notifications_enabled" -> notifications_enabled[1]]

\* an update_website that checks the interval after it has stored the other
\* field of the request
update_website_partial(w, id, user_id, interval, notifications_enabled) ==
    /\ api[w].op = "idle"
    /\ LET bad == interval # NoneStr /\ interval # "" /\ interval \notin valid_intervals
           data == update_data(IF bad THEN NoneStr ELSE interval, notifications_enabled)
           found == find_one_owned(websites, id, user_id) # None
       IN  /\ websites' = IF DOMAIN data = {} \/ ~found
                          THEN websites
                          ELSE update_one(websites, id, data)
           /\ api' = [api EXCEPT ![w] = Respond(
                  IF bad \/ DOMAIN data = {} THEN 400
                  ELSE IF ~found THEN 404 ELSE 200)]
    /\ UNCHANGED <<nextId, clock, monitoring_tasks, loop, sent, applied, changes, lastResult, resumed, failed, probed, tasks, user_data>>

update_website(w, id, user_id, interval, notifications_enabled) ==
    /\ api[w].op = "idle"
    /\ LET bad == interval # NoneStr /\ interval # "" /\ interval \notin valid_intervals
           data == IF bad THEN <<>> ELSE update_data(interval, notifications_enabled)
           found == find_one_owned(websites, id, user_id) # None
       IN  /\ websites' = IF bad \/ DOMAIN data = {} \/ ~found
                          THEN websites
                          ELSE update_one(websites, id, data)
           /\ api' = [api EXCEPT ![w] = Respond(
                  IF bad \/ DOMAIN data = {} THEN 400
                  ELSE IF ~found THEN 404 ELSE 200)]
    /\ UNCHANGED <<nextId, clock, monitoring_tasks, loop, sent, applied, changes, lastResult, resumed, failed, probed, tasks, user_data>>

\* delete_website 267-282; the bot process is not told
delete_website(w, id, user_id) ==
    /\ api[w].op = "idle"
    /\ websites' = delete_one(websites, id, user_id)
    /\ api' = [api EXCEPT ![w] = Respond(
          IF find_one_owned(websites, id, user_id) = None THEN 404 ELSE 200)]
    /\ UNCHANGED <<nextId, clock, monitoring_tasks, loop, sent, applied, changes, lastResult, resumed, failed, probed, tasks, user_data>>

\* get_website 192-211: read with the owner in the filter; nothing is written
get_website(w, id, user_id) ==
    /\ api[w].op = "idle"
    /\ api' = [api EXCEPT ![w] = Respond(
          IF find_one_owned(websites, id, user_id) = None THEN 404 ELSE 200)]
    /\ UNCHANGED <<websites, nextId, clock, monitoring_tasks, loop, sent, applied, changes, lastResult, resumed, failed, probed, tasks, user_data>>

\* manual_check 332-341: the snapshot, read with the owner in the filter
ManualFind(w, id, user_id) ==
    /\ api[w].op = "idle"
    /\ LET website == find_one_owned(websites, id, user_id)
       IN  api' = [api EXCEPT ![w] =
              IF website = None
              THEN Respond(404)
              ELSE [op |-> "check", pc |-> "probe", id |-> id,
                    website |-> Snapshot(website, manual_reads), result |-> None]]
    /\ UNCHANGED <<websites, nextId, clock, monitoring_tasks, loop, sent, applied, changes, lastResult, resumed, failed, probed, tasks, user_data>>

\* manual_check 344: check_result = await check_website(website['url'])
ManualProbe(w, net) ==
    /\ api[w].op = "check" /\ api[w].pc = "probe"
    /\ clock <= MaxProbes
    /\ api' = [api EXCEPT ![w] =
          [@ EXCEPT !.pc = "update", !.result = check_website(net, clock)]]
    /\ clock' = clock + 1
    /\ lastResult' = [lastResult EXCEPT ![api[w].id] = check_website(net, clock)]
    /\ UNCHANGED <<websites, nextId, monitoring_tasks, loop, sent, applied, changes, resumed, failed, probed, tasks, user_data>>

\* a manual check that writes nothing when its probe gives the status the
\* record already has
ManualUpdate_dedup(w) ==
    /\ api[w].op = "check" /\ api[w].pc = "update"
    /\ LET id == api[w].id
           result == api[w].result
           same == id \in DOMAIN websites /\ websites[id].status = result.status
       IN  /\ websites' = IF same THEN websites
                          ELSE update_one(websites, id, check_set(api[w].website, result))
           /\ applied' = [applied EXCEPT ![id] = @ + matched_count(websites, id)]
           /\ changes' = [changes EXCEPT ![id] =
                  @ + (IF StatusChange(websites, id, result.status) THEN 1 ELSE 0)]
    /\ api' = [api EXCEPT ![w] = Respond(200)]
    /\ UNCHANGED <<nextId, clock, monitoring_tasks, loop, sent, lastResult, resumed, failed, probed, tasks, user_data>>

\* manual_check 347-374: the counters from the snapshot, update_one, the
\* response; nothing compares the old status with the new one
ManualUpdate(w) ==
    /\ api[w].op = "check" /\ api[w].pc = "update"
    /\ LET id == api[w].id
           result == api[w].result
       IN  /\ websites' = update_one(websites, id, check_set(api[w].website, result))
           /\ applied' = [applied EXCEPT ![id] = @ + matched_count(websites, id)]
           /\ changes' = [changes EXCEPT ![id] =
                  @ + (IF StatusChange(websites, id, result.status) THEN 1 ELSE 0)]
    /\ api' = [api EXCEPT ![w] = Respond(200)]
    /\ UNCHANGED <<nextId, clock, monitoring_tasks, loop, sent, lastResult, resumed, failed, probed, tasks, user_data>>

\* ------------------------------------------------------------ specification
Next ==
    \/ \E u \in Owners, url \in Urls, k \in AddIntervals, net \in NetInputs :
          handle_interval_selection(u, url, k, net)
    \/ \E id \in Ids : LoopFind(id)
    \/ \E id \in Ids, net \in NetInputs : LoopProbe(id, net)
    \/ \E id \in Ids : LoopUpdate(id)
    \/ \E id \in Ids, delivered \in BOOLEAN : LoopNotify(id, delivered)
    \/ \E id \in Ids : LoopSleep(id)
    \/ \E id \in Ids : LoopException(id)
    \/ \E w \in Workers, u \in Owners, url \in Urls, k \in AddIntervals :
          AddFind(w, u, url, k)
    \/ \E w \in Workers, net \in NetInputs : AddProbe(w, net)
    \/ \E w \in Workers : AddInsert(w)
    \/ \E w \in Workers, id \in Ids, u \in Users,
          k \in UpdateIntervals \cup {NoneStr}, e \in {<<>>, <<TRUE>>, <<FALSE>>} :
          update_website(w, id, u, k, e)
    \/ \E w \in Workers, id \in Ids, u \in Users : delete_website(w, id, u)
    \/ \E w \in Workers, id \in Ids, u \in Users : get_website(w, id, u)
    \/ \E w \in Workers, id \in Ids, u \in Users : ManualFind(w, id, u)
    \/ \E w \in Workers, net \in NetInputs : ManualProbe(w, net)
    \/ \E w \in Workers : ManualUpdate(w)

Spec == Init /\ [][Next]_vars

\* ------------------------------------------------------- process restart
\* counters a document can hold when the bot process starts
PersistedCounters == {<<10, 8>>, <<1, 0>>}

\* post_init 691-700 with a record that has lost its history (the counters a
\* fresh record would have)
post_init_reset ==
    /\ ~resumed.booted
    /\ websites' = [i \in DOMAIN websites |->
          SetFields(websites[i], [total_checks |-> 0, successful_checks |-> 0])]
    /\ resumed' = [booted |-> TRUE,
                   sites |-> [i \in DOMAIN websites |->
                       Snapshot(websites[i],
                                {"user_id", "total_checks", "successful_checks"})]]
    /\ monitoring_tasks' = monitoring_tasks \cup DOMAIN websites
    /\ loop' = [i \in DOMAIN loop |-> IF i \in DOMAIN websites
                              THEN [NoTask EXCEPT !.pc = "find"] ELSE loop[i]]
    /\ tasks' = [i \in DOMAIN tasks |-> IF i \in DOMAIN websites
                              THEN tasks[i] + 1 ELSE tasks[i]]
    /\ UNCHANGED <<nextId, clock, api, sent, applied, changes, lastResult, failed, probed, user_data>>

\* post_init 691-700 called again while the process runs
post_init_rerun ==
    /\ resumed' = [booted |-> TRUE,
                   sites |-> [i \in DOMAIN websites |->
                       Snapshot(websites[i],
                                {"user_id", "total_checks", "successful_checks"})]]
    /\ monitoring_tasks' = monitoring_tasks \cup DOMAIN websites
    /\ loop' = [i \in DOMAIN loop |-> IF i \in DOMAIN websites
                              THEN [NoTask EXCEPT !.pc = "find"] ELSE loop[i]]
    /\ tasks' = [i \in DOMAIN tasks |-> IF i \in DOMAIN websites
                              THEN tasks[i] + 1 ELSE tasks[i]]
    /\ UNCHANGED <<websites, nextId, clock, api, sent, applied, changes, lastResult, failed, probed, user_data>>

\* post_init 691-700: find({}).to_list(None), then for every document
\* create_task(monitor_website(...)) and monitoring_tasks[website_id] = task
post_init ==
    /\ ~resumed.booted
    /\ resumed' = [booted |-> TRUE,
                   sites |-> [i \in DOMAIN websites |->
                       Snapshot(websites[i],
                                {"user_id", "total_checks", "successful_checks"})]]
    /\ monitoring_tasks' = monitoring_tasks \cup DOMAIN websites
    /\ loop' = [i \in DOMAIN loop |-> IF i \in DOMAIN websites
                              THEN [NoTask EXCEPT !.pc = "find"] ELSE loop[i]]
    /\ tasks' = [i \in DOMAIN tasks |-> IF i \in DOMAIN websites
                              THEN tasks[i] + 1 ELSE tasks[i]]
    /\ UNCHANGED <<websites, nextId, clock, api, sent, applied, changes, lastResult, failed, probed, user_data>>

\* the bot process starts on a collection that already holds a document, the
\* one an earlier run of the process left: no task, an empty registry
InitResume ==
    /\ \E u \in Owners, url \in Urls, c \in PersistedCounters :
          /\ websites = insert_one(<<>>, 1,
                SetFields(website_data(u, url, "5min",
                              UptimeMonitor_check_website(
                                  [kind |-> "response",
                                   code |-> IF c[2] > 0 THEN 200 ELSE 503,
                                   ms |-> 50], 1)),
                          [total_checks |-> c[1], successful_checks |-> c[2],
                           uptime_percentage |-> Percentage(c[2], c[1])]))
    /\ nextId = 2
    /\ clock = 2
    /\ monitoring_tasks = {}
    /\ loop = [i \in Ids |-> NoTask]
    /\ api = [w \in Workers |-> IdleWorker]
    /\ sent = [i \in Ids |-> 0]
    /\ applied = [i \in Ids |-> 0]
    /\ changes = [i \in Ids |-> 0]
    /\ lastResult = [i \in Ids |-> None]
    /\ resumed = [booted |-> FALSE, sites |-> <<>>]
    /\ failed = [i \in Ids |-> 0]
    /\ probed = NotProbed
    /\ tasks = [i \in Ids |-> 0]
    /\ user_data = [u \in Owners |-> NoUserData]

\* the restarted bot and the API process, which never stopped
NextResume ==
    \/ post_init
    \/ \E id \in Ids : LoopFind(id)
    \/ \E id \in Ids, net \in NetInputs : LoopProbe(id, net)
    \/ \E id \in Ids : LoopUpdate(id)
    \/ \E id \in Ids, delivered \in BOOLEAN : LoopNotify(id, delivered)
    \/ \E id \in Ids : LoopSleep(id)
    \/ \E id \in Ids : LoopException(id)
    \/ \E w \in Workers, id \in Ids, u \in Users,
          k \in UpdateIntervals \cup {NoneStr}, e \in {<<>>, <<TRUE>>, <<FALSE>>} :
          update_website(w, id, u, k, e)
    \/ \E w \in Workers, id \in Ids, u \in Users : delete_website(w, id, u)
    \/ \E w \in Workers, id \in Ids, u \in Users : get_website(w, id, u)
    \/ \E w \in Workers, id \in Ids, u \in Users : ManualFind(w, id, u)
    \/ \E w \in Workers, net \in NetInputs : ManualProbe(w, net)
    \/ \E w \in Workers : ManualUpdate(w)

SpecResume == InitResume /\ [][NextResume]_vars

\* ------------------------------------------------- the two check_website
\* what the network can do to one GET: a response with any status code, the
\* 10 s total timeout, a connection failure
ProbeInputs ==
    [kind : {"response"}, code : {100, 200, 301, 404, 499, 500, 503, 599},
     ms : {50, 9000}]
    \cup [kind : {"timeout", "error"}, code : {0}, ms : {10000}]
ProbeTimes == {1, 2}

InitProbe ==
    /\ websites = <<>>
    /\ nextId = 1
    /\ clock = 1
    /\ monitoring_tasks = {}
    /\ loop = [i \in Ids |-> NoTask]
    /\ api = [w \in Workers |-> IdleWorker]
    /\ sent = [i \in Ids |-> 0]
    /\ applied = [i \in Ids |-> 0]
    /\ changes = [i \in Ids |-> 0]
    /\ lastResult = [i \in Ids |-> None]
    /\ resumed = [booted |-> TRUE, sites |-> <<>>]
    /\ failed = [i \in Ids |-> 0]
    /\ \E net \in ProbeInputs, now \in ProbeTimes :
          probed = [NotProbed EXCEPT !.net = net, !.now = now]
    /\ tasks = [i \in Ids |-> 0]
    /\ user_data = [u \in Owners |-> NoUserData]

\* bot.py 56-86 applied to the GET
ProbeBot ==
    /\ probed.bot = None
    /\ probed' = [probed EXCEPT !.bot = UptimeMonitor_check_website(probed.net, probed.now)]
    /\ UNCHANGED <<websites, nextId, clock, monitoring_tasks, loop, api, sent, applied, changes, lastResult, resumed, failed, tasks, user_data>>

\* api_server.py 75-97 applied to the GET
ProbeApi ==
    /\ probed.api = None
    /\ probed' = [probed EXCEPT !.api = check_website(probed.net, probed.now)]
    /\ UNCHANGED <<websites, nextId, clock, monitoring_tasks, loop, api, sent, applied, changes, lastResult, resumed, failed, tasks, user_data>>

NextProbe == ProbeBot \/ ProbeApi

SpecProbe == InitProbe /\ [][NextProbe]_vars

\* ------------------------------------------------------- fair scheduling
\* monitor_website 329 for a loop whose record is gone: MaxProbes bounds the
\* counters of stored records, and this probe's result is written nowhere, so
\* it is taken even when the probes of the run are used up
LoopProbeGone(id, net) ==
    /\ loop[id].pc = "probe"
    /\ clock > MaxProbes
    /\ id \notin DOMAIN websites
    /\ loop' = [loop EXCEPT ![id] =
            [@ EXCEPT !.pc = "update",
                      !.result = UptimeMonitor_check_website(net, clock)]]
    /\ UNCHANGED <<websites, nextId, clock, monitoring_tasks, api, sent, applied, changes, lastResult, resumed, failed, probed, tasks, user_data>>

NextLive ==
    \/ Next
    \/ \E id \in Ids, net \in NetInputs : LoopProbeGone(id, net)

\* the event loop runs every task that is ready, and every await of the loop
\* returns: find_one and update_one answer, the GET ends within its 10 s
\* timeout, send_message returns or raises, the sleep ends
LoopFairness ==
    \A id \in Ids :
        /\ WF_vars(LoopFind(id))
        /\ WF_vars(\E net \in NetInputs : LoopProbe(id, net))
        /\ WF_vars(\E net \in NetInputs : LoopProbeGone(id, net))
        /\ WF_vars(LoopUpdate(id))
        /\ WF_vars(\E delivered \in BOOLEAN : LoopNotify(id, delivered))
        /\ WF_vars(LoopSleep(id))

SpecLive == Init /\ [][NextLive]_vars /\ LoopFairness

\* ------------------------------------------------- concurrent add_website
\* two requests of the API in flight at once, and the two ids insert_one can
\* hand out to them
AddWorkers == {1, 2}
AddIds == {1, 2}

InitAdd ==
    /\ websites = <<>>
    /\ nextId = 1
    /\ clock = 1
    /\ monitoring_tasks = {}
    /\ loop = [i \in AddIds |-> NoTask]
    /\ api = [w \in AddWorkers |-> IdleWorker]
    /\ sent = [i \in AddIds |-> 0]
    /\ applied = [i \in AddIds |-> 0]
    /\ changes = [i \in AddIds |-> 0]
    /\ lastResult = [i \in AddIds |-> None]
    /\ resumed = [booted |-> TRUE, sites |-> <<>>]
    /\ failed = [i \in AddIds |-> 0]
    /\ probed = NotProbed
    /\ tasks = [i \in AddIds |-> 0]
    /\ user_data = [u \in Owners |-> NoUserData]

NextAdd ==
    \/ \E w \in AddWorkers, u \in Owners, url \in Urls, k \in AddIntervals :
          AddFind(w, u, url, k)
    \/ \E w \in AddWorkers, net \in NetInputs : AddProbe(w, net)
    \/ \E w \in AddWorkers : AddInsert(w)
    \/ \E w \in AddWorkers, id \in AddIds, u \in Users : delete_website(w, id, u)
    \/ \E w \in AddWorkers, id \in AddIds, u \in Users : get_website(w, id, u)

SpecAdd == InitAdd /\ [][NextAdd]_vars


\* ------------------------------------------- restart followed by creations
\* ids of the run: the document the earlier run left, and one insert_one of
\* this run
BootIds == {1, 2}

\* the bot process starts on a collection that holds document 1
InitBoot ==
    /\ \E u \in Owners, url \in Urls, c \in PersistedCounters :
          /\ websites = insert_one(<<>>, 1,
                SetFields(website_data(u, url, "5min",
                              UptimeMonitor_check_website(
                                  [kind |-> "response",
                                   code |-> IF c[2] > 0 THEN 200 ELSE 503,
                                   ms |-> 50], 1)),
                          [total_checks |-> c[1], successful_checks |-> c[2],
                           uptime_percentage |-> Percentage(c[2], c[1])]))
    /\ nextId = 2
    /\ clock = 2
    /\ monitoring_tasks = {}
    /\ loop = [i \in BootIds |-> NoTask]
    /\ api = [w \in Workers |-> IdleWorker]
    /\ sent = [i \in BootIds |-> 0]
    /\ applied = [i \in BootIds |-> 0]
    /\ changes = [i \in BootIds |-> 0]
    /\ lastResult = [i \in BootIds |-> None]
    /\ resumed = [booted |-> FALSE, sites |-> <<>>]
    /\ failed = [i \in BootIds |-> 0]
    /\ probed = NotProbed
    /\ tasks = [i \in BootIds |-> 0]
    /\ user_data = [u \in Owners |-> NoUserData]

\* main 701-714: run_polling calls post_init before it fetches the first
\* update, so the handlers run after it
NextBoot ==
    \/ post_init
    \/ /\ resumed.booted
       /\ \E u \in Owners, url \in Urls, k \in AddIntervals, net \in NetInputs :
             handle_interval_selection(u, url, k, net)
    \/ \E id \in BootIds : LoopFind(id)
    \/ \E id \in BootIds, net \in NetInputs : LoopProbe(id, net)
    \/ \E id \in BootIds : LoopUpdate(id)
    \/ \E id \in BootIds, delivered \in BOOLEAN : LoopNotify(id, delivered)
    \/ \E id \in BootIds : LoopSleep(id)
    \/ \E id \in BootIds : LoopException(id)
    \/ \E w \in Workers, id \in BootIds, u \in Users : delete_website(w, id, u)

SpecBoot == InitBoot /\ [][NextBoot]_vars


\* ------------------------------------------------- the bot's add dialogue
\* texts a user sends as the URL: with a scheme, and without one
Texts == {"https://a.example/", "a.example/"}

\* handle_message 249-252: the text as it is when it starts with http:// or
\* https://, else 'https://' + text
pending_url_of(text) ==
    IF text \in {"https://a.example/"} THEN text
    ELSE CASE text = "a.example/" -> "https://a.example/"

\* session.get(None) raises inside check_website's try (bot.py 59-62), which
\* the except Exception clause 79-86 turns into a result
InvalidUrl == [kind |-> "error", code |-> 0, ms |-> 0]

\* add_website_start 155-167 (button add_website)
add_website_start(user_id) ==
    /\ user_data' = [user_data EXCEPT ![user_id].awaiting_url = TRUE]
    /\ UNCHANGED <<websites, nextId, clock, monitoring_tasks, loop, api, sent, applied, changes, lastResult, resumed, failed, probed, tasks>>

\* handle_message 247-260: a text while awaiting_url is set; the probe it
\* makes is shown to the user and stored nowhere
handle_message(user_id, text) ==
    /\ user_data[user_id].awaiting_url
    /\ user_data' = [user_data EXCEPT ![user_id] =
          [awaiting_url |-> FALSE, pending_url |-> pending_url_of(text)]]
    /\ UNCHANGED <<websites, nextId, clock, monitoring_tasks, loop, api, sent, applied, changes, lastResult, resumed, failed, probed, tasks>>

\* cancel 686-689 (/cancel)
cancel(user_id) ==
    /\ user_data' = [user_data EXCEPT ![user_id] = NoUserData]
    /\ UNCHANGED <<websites, nextId, clock, monitoring_tasks, loop, api, sent, applied, changes, lastResult, resumed, failed, probed, tasks>>

\* button_callback 579-581: an interval button of any keyboard still in the
\* chat; handle_interval_selection 201 reads pending_url with .get
button_callback(user_id, interval_key, net) ==
    LET url == user_data[user_id].pending_url
    IN  handle_interval_selection(user_id, url, interval_key,
                                  IF url = NoneStr THEN InvalidUrl ELSE net)

InitBot ==
    /\ websites = <<>>
    /\ nextId = 1
    /\ clock = 1
    /\ monitoring_tasks = {}
    /\ loop = [i \in BootIds |-> NoTask]
    /\ api = [w \in Workers |-> IdleWorker]
    /\ sent = [i \in BootIds |-> 0]
    /\ applied = [i \in BootIds |-> 0]
    /\ changes = [i \in BootIds |-> 0]
    /\ lastResult = [i \in BootIds |-> None]
    /\ resumed = [booted |-> TRUE, sites |-> <<>>]
    /\ failed = [i \in BootIds |-> 0]
    /\ probed = NotProbed
    /\ tasks = [i \in BootIds |-> 0]
    /\ user_data = [u \in Owners |-> NoUserData]

NextBot ==
    \/ \E u \in Owners : add_website_start(u)
    \/ \E u \in Owners, text \in Texts : handle_message(u, text)
    \/ \E u \in Owners : cancel(u)
    \/ \E u \in Owners, k \in AddIntervals, net \in NetInputs :
          button_callback(u, k, net)
    \/ \E id \in BootIds : LoopFind(id)
    \/ \E id \in BootIds, net \in NetInputs : LoopProbe(id, net)
    \/ \E id \in BootIds : LoopUpdate(id)
    \/ \E id \in BootIds, delivered \in BOOLEAN : LoopNotify(id, delivered)
    \/ \E id \in BootIds : LoopSleep(id)
    \/ \E id \in BootIds : LoopException(id)

SpecBot == InitBot /\ [][NextBot]_vars

\* ------------------------------------------------------------------ claims
\* no check of target id is between its read and the end of its cycle
Quiescent(id) ==
    /\ loop[id].pc \notin {"probe", "update", "notify"}
    /\ \A w \in Workers : ~(api[w].op = "check" /\ api[w].id = id)

\* the record of id was inserted and is gone
Deleted(id) == id < nextId /\ id \notin DOMAIN websites

\* this step is the update_one of a check (periodic or manual) of target id
CheckWrites(id) ==
    \/ loop[id].pc = "update" /\ loop'[id].pc \in {"notify", "sleep"}
    \/ \E w \in Workers :
          /\ api[w].op = "check" /\ api[w].pc = "update" /\ api[w].id = id
          /\ api'[w].op = "idle"

\* C1: once every check of a target has finished, total_checks is its value
\* at creation (1) plus the number of checks whose update was applied.
C1_NoLostUpdate ==
    \A id \in DOMAIN websites :
        Quiescent(id) => websites[id].total_checks = 1 + applied[id]

\* C2: no step lowers the persisted total_checks or successful_checks of a
\* target.
C2_CountersNeverDecrease ==
    [][\A id \in DOMAIN websites \cap DOMAIN websites' :
           /\ websites'[id].total_checks >= websites[id].total_checks
           /\ websites'[id].successful_checks >= websites[id].successful_checks]_vars

\* C3: every persisted target has 0 <= successful_checks <= total_checks, in
\* every reachable state, overlapping checks included.
C3_SuccessfulWithinTotal ==
    \A id \in DOMAIN websites :
        /\ 0 <= websites[id].successful_checks
        /\ websites[id].successful_checks <= websites[id].total_checks

\* C3 witness: a manual check and a periodic cycle overlapped on one target
\* (one increment was overwritten) and the record holds a failed check too.
C3_Witness ==
    \E id \in DOMAIN websites :
        /\ applied[id] >= 2
        /\ websites[id].total_checks < 1 + applied[id]
        /\ websites[id].successful_checks < websites[id].total_checks

\* C4: the stored uptime_percentage of every persisted target is
\* successful_checks / total_checks * 100 of the same record.
C4_UptimeDerived ==
    \A id \in DOMAIN websites :
        websites[id].uptime_percentage =
            Percentage(websites[id].successful_checks, websites[id].total_checks)

\* C5: once a target is deleted no step brings a record for its id back, and
\* the update_one of a check still in flight for it changes no document.
C5_DeleteNeverResurrects ==
    [][\A id \in Ids :
           Deleted(id) =>
               /\ id \notin DOMAIN websites'
               /\ CheckWrites(id) => websites' = websites]_vars

\* C5 witness: a periodic cycle ran its update_one after the target was
\* deleted; the update matched nothing.
C5_Witness ==
    \E id \in Ids :
        /\ Deleted(id)
        /\ loop[id].pc \in {"notify", "sleep"}
        /\ loop[id].matched = 0

\* C6: every persisted status change made while notifications are enabled is
\* followed by exactly one notification, whoever wrote it: with no check of
\* the target in flight and its loop not ended by an error, the notifications
\* sent for it are as many as those changes.
C6_EveryChangeNotifiedOnce ==
    \A id \in DOMAIN websites :
        Quiescent(id) /\ loop[id].why # "error" => sent[id] = changes[id]

\* C7: a periodic cycle whose update matched the record, and during which the
\* notification setting did not change, notifies iff the status stored just
\* before its update differs from the probe's status and notifications are
\* enabled.
C7_NotifyIffStoredStatusDiffers ==
    \A id \in Ids :
        /\ loop[id].pc \in {"notify", "sleep"}
        /\ loop[id].matched = 1
        /\ loop[id].before.notifications_enabled = loop[id].site.notifications_enabled
        => (loop[id].due <=>
               /\ loop[id].before.status # loop[id].result.status
               /\ loop[id].before.notifications_enabled)

\* C8: a monitoring loop ends only because find_one found no record, never
\* because of an exception raised inside a cycle.
C8_LoopEndsOnlyWhenRecordGone ==
    \A id \in Ids : loop[id].pc = "stopped" => loop[id].why = "gone"

\* C9: every persisted target has a monitoring task, whichever path created
\* it.
C9_EveryTargetHasLoop ==
    \A id \in DOMAIN websites :
        id \in monitoring_tasks /\ loop[id].pc # "none"

\* C10: with no check of the target in flight (and its loop not ended by an
\* error), the record shows the result of the probe that finished last.
C10_LastCompletedProbeWins ==
    \A id \in DOMAIN websites :
        Quiescent(id) /\ loop[id].why # "error" =>
            /\ websites[id].status = lastResult[id].status
            /\ websites[id].last_checked = lastResult[id].checked_at
            /\ websites[id].last_status_code = lastResult[id].status_code
            /\ websites[id].last_response_time = lastResult[id].response_time

\* C11: resume keeps history. When the restarted bot's first cycle on a target
\* is the only check written since the restart, the record holds the counters
\* post_init found plus one check, plus one success exactly when that cycle's
\* probe was up, and the uptime derived from them: nothing reset, nothing
\* counted twice.
C11_ResumeKeepsHistory ==
    \A id \in DOMAIN websites :
        (/\ resumed.booted /\ id \in DOMAIN resumed.sites
         /\ applied[id] = 1
         /\ loop[id].pc \in {"notify", "sleep"} /\ loop[id].matched = 1)
        => /\ websites[id].total_checks = resumed.sites[id].total_checks + 1
           /\ websites[id].successful_checks =
                 resumed.sites[id].successful_checks
                 + (IF loop[id].result.status = "up" THEN 1 ELSE 0)
           /\ websites[id].uptime_percentage =
                 Percentage(websites[id].successful_checks,
                            websites[id].total_checks)

\* the persisted 10/8 record after an up cycle: 11/9, uptime 900/11 = 81.82
C11_Witness ==
    /\ 1 \in DOMAIN websites /\ 1 \in DOMAIN resumed.sites
    /\ resumed.sites[1].total_checks = 10
    /\ resumed.sites[1].successful_checks = 8
    /\ applied[1] = 1 /\ loop[1].pc = "sleep" /\ loop[1].matched = 1
    /\ loop[1].result.status = "up"
    /\ websites[1].total_checks = 11 /\ websites[1].successful_checks = 9
    /\ websites[1].uptime_percentage = <<900, 11>>

\* C12: end to end. A record no check has been written to since it was created
\* from an HTTP 200 probe is up with 1 check, 1 success, uptime 100; when the
\* loop's next cycle reads that record, gets HTTP 503, and is the only check
\* written, the record is down with 2 checks, 1 success, uptime 50, and
\* send_message has been called exactly once.
C12_EndToEnd ==
    \A id \in DOMAIN websites :
        /\ (applied[id] = 0 /\ websites[id].last_status_code = 200)
           => /\ websites[id].status = "up"
              /\ websites[id].total_checks = 1
              /\ websites[id].successful_checks = 1
              /\ websites[id].uptime_percentage = Hundred
        /\ (/\ applied[id] = 1 /\ loop[id].pc = "sleep" /\ loop[id].matched = 1
            /\ loop[id].site.status = "up" /\ loop[id].site.total_checks = 1
            /\ loop[id].site.notifications_enabled
            /\ loop[id].result.status_code = 503)
           => /\ websites[id].status = "down"
              /\ websites[id].last_status_code = 503
              /\ websites[id].total_checks = 2
              /\ websites[id].successful_checks = 1
              /\ websites[id].uptime_percentage = <<50, 1>>
              /\ sent[id] = 1

\* the second stage of the scenario has happened
C12_Witness ==
    /\ 1 \in DOMAIN websites
    /\ applied[1] = 1 /\ loop[1].pc = "sleep" /\ loop[1].matched = 1
    /\ loop[1].site.status = "up" /\ loop[1].site.total_checks = 1
    /\ loop[1].result.status_code = 503
    /\ websites[1].status = "down" /\ websites[1].total_checks = 2
    /\ websites[1].uptime_percentage = <<50, 1>> /\ sent[1] = 1

\* C13: for every probe result both check_website implementations return an
\* outcome: up exactly for a response with a status code below 500; a code of
\* 500 or more gives down with that code; a connection failure or a timeout
\* gives down with status_code 0 and a non-empty error cause.
C13_ProbeClassification ==
    \A r \in {probed.bot, probed.api} \ {None} :
        LET net == probed.net
        IN  /\ r.status \in {"up", "down"}
            /\ r.status = "up" <=> (net.kind = "response" /\ net.code < 500)
            /\ (net.kind = "response" /\ net.code >= 500)
               => (r.status = "down" /\ r.status_code = net.code)
            /\ net.kind # "response"
               => (r.status = "down" /\ r.status_code = 0
                   /\ r.error \notin {NoneStr, ""})

\* no document with this id belongs to this caller
NotOwned(id, user_id) ==
    id \notin DOMAIN websites \/ websites[id].user_id # user_id

C15_VisibleOnlyAfterFirstProbe ==
    [][\A id \in DOMAIN websites' :
          /\ websites'[id].status \in {"up", "down"}
          /\ websites'[id].total_checks >= 1
          /\ id \notin DOMAIN websites
             => /\ lastResult'[id] # None
                /\ lastResult'[id].checked_at < clock'
                /\ websites'[id].status = lastResult'[id].status
                /\ websites'[id].total_checks = 1
                /\ websites'[id].successful_checks =
                      (IF lastResult'[id].status = "up" THEN 1 ELSE 0)]_vars

\* a record created from a down probe, before any later check
C15_Witness ==
    /\ 1 \in DOMAIN websites /\ applied[1] = 0
    /\ websites[1].status = "down"
    /\ websites[1].total_checks = 1 /\ websites[1].successful_checks = 0

\* C16: a failed delivery neither fails nor stalls the cycle. The step in which
\* send_message raises leaves every record as the cycle's update left it,
\* counts as the one attempt of this cycle, and takes the loop to its sleep,
\* still running; the loop is at its notify step only in a cycle whose own
\* update found a notification due, so a failed one is never tried again.
C16_FailedDeliverySwallowed ==
    [][\A id \in Ids :
          /\ failed'[id] # failed[id]
             => /\ websites' = websites
                /\ loop[id].pc = "notify"
                /\ sent'[id] = sent[id] + 1
                /\ failed'[id] = failed[id] + 1
                /\ loop'[id].pc = "sleep" /\ loop'[id].why = "running"
          /\ loop'[id].pc = "notify"
             => (loop'[id].due /\ (loop[id].pc = "update" \/ loop'[id] = loop[id]))]_vars

\* after a delivery that failed, the loop is in its next cycle and the record
\* still holds the failed cycle's update
C16_Witness ==
    /\ failed[1] = 1 /\ sent[1] = 1
    /\ loop[1].pc = "probe"
    /\ 1 \in DOMAIN websites /\ websites[1].total_checks = 2

C18_ManualChecksNotDeduplicated ==
    [][\A w \in Workers :
          (/\ api[w].op = "check" /\ api[w].pc = "update" /\ api'[w] # api[w]
           /\ api[w].id \in DOMAIN websites
           /\ websites[api[w].id].total_checks = api[w].website.total_checks
           /\ websites[api[w].id].successful_checks
                 = api[w].website.successful_checks)
          => /\ api'[w] = Respond(200)
             /\ websites'[api[w].id].total_checks
                   = websites[api[w].id].total_checks + 1
             /\ websites'[api[w].id].successful_checks
                   = websites[api[w].id].successful_checks
                     + (IF api[w].result.status = "up" THEN 1 ELSE 0)]_vars

\* a target without a loop, created up, then checked by hand twice with the
\* same outcome: total_checks went from 1 to 3
C18_Witness ==
    /\ 1 \in DOMAIN websites /\ loop[1].pc = "none"
    /\ applied[1] = 2
    /\ websites[1].total_checks = 3 /\ websites[1].successful_checks = 3
    /\ \A w \in Workers : api[w] = Respond(200)

\* C19: under fair scheduling, once a target's record has been deleted its
\* monitoring loop eventually ends, wherever in its cycle it was.
C19_DeletedLoopTerminates ==
    \A id \in Ids : Deleted(id) ~> (loop[id].pc \in {"none", "stopped"})

\* a loop that was past its read when the record went: its probe finished,
\* its update matched nothing, and its next read ended it
C19_Witness ==
    /\ Deleted(1)
    /\ loop[1].pc = "stopped" /\ loop[1].why = "gone"
    /\ applied[1] = 0 /\ lastResult[1] # None /\ lastResult[1].checked_at = 2

\* C20: monitoring_tasks holds exactly the ids of the loops still running: a
\* running loop has an entry, and a loop that has stopped because its record
\* was deleted has none.
C20_RegistryHoldsRunningLoops ==
    \A id \in Ids :
        /\ loop[id].pc \notin {"none", "stopped"} => id \in monitoring_tasks
        /\ (loop[id].pc = "stopped" /\ loop[id].why = "gone")
           => id \notin monitoring_tasks

\* C21: once a target's record is deleted its loop never comes to a probe
\* again: a probe of the deleted target is started only from the probe
\* position the loop already held, which it reached by reading the record
\* before the deletion; that cycle's update stores nothing and the loop does
\* not return to the probe position. So at most one probe of a deleted target
\* is started and none is persisted.
C21_OneInFlightProbeAfterDelete ==
    [][\A id \in Ids :
          Deleted(id) =>
             /\ loop'[id].pc = "probe" => loop[id].pc = "probe"
             /\ (loop[id].pc = "probe" /\ loop'[id].pc # "probe")
                => (loop'[id].pc = "update" /\ loop[id].site # None)
             /\ (loop[id].pc = "update" /\ loop'[id].pc # "update")
                => (websites' = websites /\ applied'[id] = applied[id])]_vars

\* the probe of the in-flight cycle was started after the deletion (it is the
\* only probe taken once the run's probes are used up)
C21_Witness ==
    /\ Deleted(1)
    /\ loop[1].pc = "update"
    /\ loop[1].result.checked_at = MaxProbes + 1

CheckFields ==
    {"status", "last_checked", "last_status_code", "last_response_time",
     "uptime_percentage", "total_checks", "successful_checks"}
SettingFields == {"interval", "interval_seconds", "notifications_enabled"}

\* C24: frame. In every step a record that stays keeps its url and user_id;
\* the update of a periodic cycle or of a manual check leaves interval,
\* interval_seconds and notifications_enabled as they are stored at that
\* moment (a settings update made since the check's read is kept); a request
\* answered in one step (update_website among them) leaves the seven check
\* fields as they are; no step changes fields of both groups.
C24_Frame ==
    [][\A id \in DOMAIN websites \cap DOMAIN websites' :
          /\ websites'[id].url = websites[id].url
          /\ websites'[id].user_id = websites[id].user_id
          /\ CheckWrites(id)
             => Snapshot(websites'[id], SettingFields)
                   = Snapshot(websites[id], SettingFields)
          /\ (\E w \in Workers : api[w].op = "idle" /\ api'[w].op = "idle"
                                 /\ api'[w] # api[w])
             => Snapshot(websites'[id], CheckFields)
                   = Snapshot(websites[id], CheckFields)
          /\ \/ Snapshot(websites'[id], SettingFields)
                   = Snapshot(websites[id], SettingFields)
             \/ Snapshot(websites'[id], CheckFields)
                   = Snapshot(websites[id], CheckFields)]_vars

\* a cycle read the record with notifications on, update_website turned them
\* off, the cycle's update was applied, and the setting is still off
C24_Witness ==
    /\ 1 \in DOMAIN websites
    /\ loop[1].pc \in {"notify", "sleep"} /\ loop[1].matched = 1
    /\ loop[1].site.notifications_enabled
    /\ ~websites[1].notifications_enabled
    /\ websites[1].last_checked = loop[1].result.checked_at

\* C25: the loop sends no notification for a target whose stored
\* notifications_enabled is false at that moment, also in a cycle that was in
\* flight when update_website turned it off.
C25_NoNotificationWhileDisabled ==
    [][\A id \in Ids :
          (sent'[id] # sent[id] /\ id \in DOMAIN websites)
          => websites[id].notifications_enabled]_vars

\* C26: the loop sends no notification for a target whose record has been
\* deleted, also in the cycle that was in flight when it was deleted.
C26_NoNotificationAfterDelete ==
    [][\A id \in Ids : sent'[id] # sent[id] => id \in DOMAIN websites]_vars

\* C27: through the REST API an owner never has two records for one url,
\* whatever the interleaving of that owner's add_website calls.
C27_NoDuplicateUrl ==
    \A i \in DOMAIN websites : \A j \in DOMAIN websites :
        (websites[i].user_id = websites[j].user_id
         /\ websites[i].url = websites[j].url) => i = j


\* C28: the bot process starts at most one monitor_website task per target id,
\* whatever post_init and the creations do, so no target has two periodic
\* loops; every loop that exists is the one task started for its id.
C28_OneLoopPerTarget ==
    \A id \in DOMAIN tasks :
        /\ tasks[id] <= 1
        /\ loop[id].pc # "none" => tasks[id] = 1
        /\ tasks[id] = 1 => id \in monitoring_tasks

\* a resumed target and a target created after the restart, both being probed
C28_Witness ==
    /\ resumed.booted
    /\ 1 \in DOMAIN resumed.sites
    /\ tasks = [i \in BootIds |-> 1]
    /\ loop[1].pc = "update"
    /\ loop[2].pc = "probe"


\* C29: every persisted record has a non-null url: an interval button pressed
\* while no pending URL is set creates no record and starts no loop.
C29_EveryTargetHasUrl ==
    \A i \in DOMAIN websites : websites[i].url # NoneStr

=============================================================================
